---- MODULE Spec2Model ----
(***************************************************************************)
(* Model of the Minor CPU pipeline orchestrator, src/cpu/minor/pipeline.cc *)
(* (Minor::Pipeline): the per-tick evaluate(), the idle policy and the     *)
(* drain / drainResume / wakeupFetch / isDrained interface.                *)
(*                                                                         *)
(* The stages (Fetch1, Fetch2, Decode, Execute), the inter-stage buffers   *)
(* (MinorBuffer), the ActivityRecorder and the Ticked base class are       *)
(* declared outside pipeline.cc; they are modelled from their interface    *)
(* description and kept as small as the orchestrator's logic allows.       *)
(***************************************************************************)
EXTENDS Integers, Sequences, FiniteSets, TLC

(***************************************************************************)
(* Bounds of the model.                                                    *)
(***************************************************************************)
\* largest configured channel delay explored
MaxDelay == 2
\* at most this many channels receive a non-bubble payload in one tick
MaxWrites == 1
\* cpu.numThreads
NumThreads == 2
\* simulated time up to which the statistics are followed
MaxTick == 4
\* at most this many ticks of simulated time pass between two evaluate()
MaxElapsed == 2
\* an uninitialised Tick is followed this far from either end of its range
MaxGarbage == 2

\* a channel slot holds a bubble or data (pipeline.cc 330: " BB " / "data")
Bubble == "BB"
Data == "data"
Payload == {Bubble, Data}

\* a payload after the fault-injection hook has mutated it in place
Faulty == "fault"
\* params.injectComp when no fault injection is configured
NoInject == "none"
\* a BranchData that is neither a bubble nor a branch (an interrupt, a
\* thread suspension, a halt of fetch)
NotBranch == "notbranch"

Chan == {"f1ToF2", "f2ToF1", "f2ToD", "dToE", "eToF1"}
Stages == {"fetch1", "fetch2", "decode", "execute"}
StageId == {"CPU", "Fetch1", "Fetch2", "Decode", "Execute"}
ThreadIds == 0..(NumThreads - 1)

(***************************************************************************)
(* The ends of the channels handed to the stages by the constructor.       *)
(* <<stage, channel, end>>: the input end is written by the producer, the  *)
(* output end is read by the consumer.                                     *)
(***************************************************************************)
\* faulty variant of Wiring: fetch2 is not handed the output end of eToF1
WiringPairwise ==
    { <<"execute", "dToE",   "output">>, <<"execute", "eToF1",  "input">>,
      <<"decode",  "f2ToD",  "output">>, <<"decode",  "dToE",   "input">>,
      <<"fetch2",  "f1ToF2", "output">>,
      <<"fetch2",  "f2ToF1", "input">>,  <<"fetch2",  "f2ToD",  "input">>,
      <<"fetch1",  "eToF1",  "output">>, <<"fetch1",  "f1ToF2", "input">>,
      <<"fetch1",  "f2ToF1", "output">> }

\* pipeline.cc 78-86
Wiring ==
    { <<"execute", "dToE",   "output">>, <<"execute", "eToF1",  "input">>,
      <<"decode",  "f2ToD",  "output">>, <<"decode",  "dToE",   "input">>,
      <<"fetch2",  "f1ToF2", "output">>, <<"fetch2",  "eToF1",  "output">>,
      <<"fetch2",  "f2ToF1", "input">>,  <<"fetch2",  "f2ToD",  "input">>,
      <<"fetch1",  "eToF1",  "output">>, <<"fetch1",  "f1ToF2", "input">>,
      <<"fetch1",  "f2ToF1", "output">> }

\* stage -> the channels it reads (it holds their output end)
InputsOf == [s \in Stages |-> { c \in Chan : <<s, c, "output">> \in Wiring }]

\* stage -> the channels it writes (it holds their input end)
OutputsOf == [s \in Stages |-> { c \in Chan : <<s, c, "input">> \in Wiring }]

ReadPorts == { <<w[1], w[2]>> : w \in { x \in Wiring : x[3] = "output" } }

VARIABLES
    delay,                \* channel -> configured delay (params.*Delay)
    allow_idling,         \* params.enableIdling
    injectComp,           \* params.injectComp
    armed,                \* the channels registerFi was called on
    hit,                  \* the last evaluate() relative to params.injectTime
    buf,                  \* channel -> its slots; [1] is the current output
    seen,                 \* observed <<stage, channel>> -> payload last read
    sent,                 \* observed channel -> payloads written, latest first
    snapshot,             \* observed channel -> output at the start of the tick
    order,                \* observed handler -> the calls its last run made,
                          \* in order
    asked,                \* observed history -> the answers of isDrained()
                          \* since the history was last cut, latest first
    stageDrained,         \* stage -> what stage.isDrained() answers
    stageActive,          \* activity recorder: stage id -> activated
    ticking,              \* Ticked::running
    needToSignalDrained,  \* the pending-drain flag
    bubble_ticks,         \* counted channel -> its *_bubble_ticks statistic
    clock,                \* curTick() and last_snapshot_time, where counted
    last                  \* the last call on the orchestrator and its outcome

vars == <<delay, allow_idling, injectComp, armed, hit, buf, seen, sent, snapshot,
          order, asked, stageDrained, stageActive, ticking, needToSignalDrained,
          bubble_ticks, clock, last>>

\* set by the constructor and never written afterwards
construction == <<delay, allow_idling, injectComp, armed>>

\* the two histories of isDrained() answers: the one cut by evaluate(),
\* drain() and drainResume(), and the one that a memory response arriving
\* at a stage cuts as well
SinceCall == "since a call"
SinceResponse == "since a call or a response"

\* evaluate(), drain() or drainResume() has run: both histories start anew
NoAnswers == [q \in DOMAIN asked |-> << >>]

\* a memory response has reached a stage
ResponseArrived(a) ==
    [q \in DOMAIN a |-> IF q = SinceCall THEN a[q] ELSE << >>]

\* one more call made by the handlers under observation
Called(calls, name) == [h \in DOMAIN calls |-> Append(calls[h], name)]

\* the answers so far and a new one: the latest two are kept
Answered(a, ret) == IF a = << >> THEN <<ret>> ELSE <<ret, Head(a)>>

\* written by evaluate() only
tickOnly ==
    <<hit, seen, sent, snapshot, order, bubble_ticks, clock>>

(***************************************************************************)
(* Forwarding channel (MinorBuffer) of delay d >= 1: d + 1 slots.  Slot 1  *)
(* is the current output; a write goes to the last slot, which is d        *)
(* advances away from the output.                                          *)
(* A channel built with a delay below 1 holds nothing from one tick to the *)
(* next: it has no slot, it is empty between ticks, and a payload written  *)
(* to it does not outlast the tick.  What a stage reads from such a        *)
(* channel after its producer has written in the same tick is not          *)
(* followed: no read port of such a channel is put under observation.      *)
(***************************************************************************)
NewChannel(d) == [i \in 1..(IF d < 1 THEN 0 ELSE d + 1) |-> Bubble]

\* the payload at the output end; nothing but a bubble has been held over
\* when there is no slot
ChanOutput(ch) == IF ch = << >> THEN Bubble ELSE ch[1]

\* the producer's one write of a tick: a bubble leaves the slot as the last
\* advance left it
ChanWrite(ch, p) ==
    IF p = Bubble \/ ch = << >> THEN ch ELSE [ch EXCEPT ![Len(ch)] = p]

\* injectFault: the payload at the output is mutated in place; a bubble
\* carries nothing to corrupt
ChanInject(ch) ==
    IF ChanOutput(ch) = Bubble THEN ch ELSE [ch EXCEPT ![1] = Faulty]

ChanAdvance(ch) == IF ch = << >> THEN ch ELSE Tail(ch) \o <<Bubble>>

ChanEmpty(ch) == \A i \in 1..Len(ch) : ch[i] = Bubble

(***************************************************************************)
(* Activity recorder: active when a stage is activated or some stage       *)
(* reported work in this tick.                                             *)
(***************************************************************************)
RecorderActive(sa, work) == work \/ \E s \in StageId : sa[s]

DeactivateStage(sa, s) == [sa EXCEPT ![s] = FALSE]

ActivateStage(sa, s) == [sa EXCEPT ![s] = TRUE]

\* faulty variant of IsDrained: the prediction channel f2ToF1 left out of the test
IsDrainedForwardOnly(sd, b) ==
    /\ \A s \in Stages : sd[s]
    /\ ChanEmpty(b["f1ToF2"])
    /\ ChanEmpty(b["f2ToD"])
    /\ ChanEmpty(b["dToE"])

(***************************************************************************)
(* Pipeline::isDrained                                                     *)
(***************************************************************************)
IsDrained(sd, b) ==
    LET fetch1_drained == sd["fetch1"]
        fetch2_drained == sd["fetch2"]
        decode_drained == sd["decode"]
        execute_drained == sd["execute"]
        f1_to_f2_drained == ChanEmpty(b["f1ToF2"])
        f2_to_f1_drained == ChanEmpty(b["f2ToF1"])
        f2_to_d_drained == ChanEmpty(b["f2ToD"])
        d_to_e_drained == ChanEmpty(b["dToE"])
    IN  fetch1_drained /\ fetch2_drained /\ decode_drained /\ execute_drained
        /\ f1_to_f2_drained /\ f2_to_f1_drained
        /\ f2_to_d_drained /\ d_to_e_drained

NoCall == << >>

\* a call without a thread id argument
NoThread == -1

\* what the last call did: its return value, whether it signalled the end of
\* a drain, went idle, what the recorder reported, the stage calls it made,
\* the pending flag and Ticked::running as the call found them, and the
\* thread id it was called with
Outcome(op, ret, signalled, idled, active, calls) ==
    [op |-> op, ret |-> ret, signalled |-> signalled, idled |-> idled,
     active |-> active, calls |-> calls,
     pending |-> needToSignalDrained, running |-> ticking, arg |-> NoThread]

(***************************************************************************)
(* State after construction.                                               *)
(***************************************************************************)
DelayConfigs ==
    { [c \in Chan |-> IF c = x THEN d ELSE 1] : x \in Chan, d \in 1..MaxDelay }

\* faulty variant of ConstructorFatal: executeBranchDelay is not checked
ConstructorFatalForwardOnly(d) ==
    \/ d["f1ToF2"] < 1
    \/ d["f2ToD"] < 1
    \/ d["dToE"] < 1

\* pipeline.cc 101-119: the delays the constructor refuses with fatal();
\* fetch1ToFetch2BackwardDelay (f2ToF1) is not among them
ConstructorFatal(d) ==
    \/ d["f1ToF2"] < 1
    \/ d["f2ToD"] < 1
    \/ d["dToE"] < 1
    \/ d["eToF1"] < 1

\* faulty variant of RegisterFi: a name that matches no channel arms f2ToF1
RegisterFiDefaulting(comp) ==
    IF comp = "f1ToF2" THEN {"f1ToF2"}
    ELSE IF comp = "f2ToD" THEN {"f2ToD"}
    ELSE IF comp = "dToE" THEN {"dToE"}
    ELSE IF comp = "eToF1" THEN {"eToF1"}
    ELSE {"f2ToF1"}

\* pipeline.cc 124-139: register fault injection on the channel injectComp names
RegisterFi(comp) ==
    IF comp = "f1ToF2" THEN {"f1ToF2"}
    ELSE IF comp = "f2ToD" THEN {"f2ToD"}
    ELSE IF comp = "dToE" THEN {"dToE"}
    ELSE IF comp = "eToF1" THEN {"eToF1"}
    ELSE IF comp = "f2ToF1" THEN {"f2ToF1"}
    ELSE {}

\* the statistics regStats registers (pipeline.cc 171-218) are followed when
\* they are asked for: one bubble_ticks counter per channel.  A counter
\* depends on its own channel and on the time only, so a behaviour follows
\* one of them
Counted(queries) ==
    IF "regStats" \in queries THEN { {c} : c \in Chan } ELSE { {} }

\* A Tick is an unsigned 64-bit integer.  The model writes it as an integer
\* t that stands for t modulo 2^64: a negative t is the value 2^64 + t, near
\* the top of the range.
\* What last_snapshot_time holds after construction: the constructor in
\* pipeline.cc does not set it, and its declaration is not in pipeline.cc;
\* every value is possible, those within MaxGarbage of either end of the
\* range are followed
Uninitialised == (-MaxGarbage)..MaxGarbage

\* the clock after construction: simulated time starts at 0
NewClock(queries) ==
    { [k \in (IF "regStats" \in queries
              THEN {"curTick", "last_snapshot_time"} ELSE {}) |->
          IF k = "last_snapshot_time" THEN g ELSE 0] : g \in Uninitialised }

\* a statistic (Stats::Scalar) holds wraps * 2^64 + ticks; it starts at 0
NoTicks == [wraps |-> 0, ticks |-> 0]

\* the statistic += a number of ticks
Plus(a, e) == [wraps |-> a.wraps + e.wraps, ticks |-> a.ticks + e.ticks]

\* Pipeline::Pipeline.  A fatal() ends the simulation: no pipeline exists
\* (last.op = "fatal") and nothing was registered for fault injection.
Construct(configs, idling, comps, observed, queries, drainedAnswers) ==
    /\ delay \in configs
    /\ allow_idling \in idling
    /\ injectComp \in comps
    /\ buf = [c \in Chan |-> NewChannel(delay[c])]
    /\ seen = [p \in observed |-> Bubble]
    /\ sent = [c \in { p[2] : p \in observed } |->
                  [i \in 1..(delay[c] + 1) |-> Bubble]]
    /\ snapshot = [c \in { p[2] : p \in observed } |-> Bubble]
    /\ order = [h \in queries \cap {"evaluate"} |-> << >>]
    /\ asked = [q \in (IF "isDrained" \in queries
                        THEN {SinceCall, SinceResponse} ELSE {}) |-> << >>]
    /\ \E cs \in Counted(queries) : bubble_ticks = [c \in cs |-> NoTicks]
    /\ clock \in NewClock(queries)
    /\ hit = "before"
    /\ stageDrained \in drainedAnswers
    /\ stageActive = [s \in StageId |-> FALSE]
    /\ ticking = FALSE
    /\ needToSignalDrained = FALSE
    /\ armed = IF ConstructorFatal(delay) THEN {} ELSE RegisterFi(injectComp)
    /\ last = Outcome(IF ConstructorFatal(delay) THEN "fatal" ELSE "new",
                      FALSE, FALSE, FALSE, FALSE, NoCall)

\* construction without fault injection
InitFor(configs, idling, observed, drainedAnswers) ==
    Construct(configs, idling, {NoInject}, observed, {}, drainedAnswers)

Init == InitFor({[c \in Chan |-> 1]}, BOOLEAN, {}, [Stages -> BOOLEAN])

(***************************************************************************)
(* What the stages may write in one tick: a payload or a bubble for every  *)
(* channel, written by the stage holding the channel's input end.          *)
(***************************************************************************)
Writes ==
    { w \in [Chan -> Payload] :
        Cardinality({ c \in Chan : w[c] # Bubble }) <= MaxWrites }

(***************************************************************************)
(* stage.evaluate(): the stage reads the current output of every channel   *)
(* whose output end it holds, writes this tick's payload to every channel  *)
(* whose input end it holds, and may change what it answers to isDrained() *)
(* (upd names the stage whose answer flips during this tick).              *)
(* st is the state threaded through one tick: buf, seen, sd, calls.  seen  *)
(* keeps what the stage read, for the read ports under observation; calls  *)
(* the calls evaluate() has made so far, in order.  Each step takes the    *)
(* value of st once (t) and builds the state after it.                     *)
(***************************************************************************)
\* the trace entry of x.evaluate()
EvaluateCall == [x \in Stages \cup Chan |-> <<x \o ".evaluate", -1>>]

StageEvaluate(s, st, w, upd) ==
    CHOOSE after \in
        { [buf  |-> [c \in Chan |->
                       IF c \in OutputsOf[s] THEN ChanWrite(t.buf[c], w[c])
                       ELSE t.buf[c]],
           seen |-> [p \in DOMAIN t.seen |->
                       IF p[1] = s THEN ChanOutput(t.buf[p[2]])
                       ELSE t.seen[p]],
           sd   |-> IF upd = s THEN [t.sd EXCEPT ![s] = ~t.sd[s]] ELSE t.sd,
           calls |-> Called(t.calls, EvaluateCall[s])] : t \in {st} } : TRUE

\* Vulnerable::evaluate: on the tick of params.injectTime (at) the hook of
\* every registered channel mutates the payload at its output
VulnerableEvaluate(st, at) ==
    CHOOSE after \in
        { [t EXCEPT
              !.buf = [c \in Chan |->
                          IF at /\ c \in armed THEN ChanInject(t.buf[c])
                          ELSE t.buf[c]],
              !.calls = Called(t.calls, <<"Vulnerable.evaluate", -1>>)] :
          t \in {st} } : TRUE

\* MinorBuffer::evaluate: advance the channel by one tick
ChannelEvaluate(st, c) ==
    CHOOSE after \in
        { [t EXCEPT !.buf[c] = ChanAdvance(t.buf[c]),
                    !.calls = Called(t.calls, EvaluateCall[c])] :
          t \in {st} } : TRUE

\* faulty variant of StagesEvaluate: eToF1 is advanced between execute and the
\* front-end stages
StagesEvaluateAdvancingBranch(st, w, upd) ==
    LET afterExecute == StageEvaluate("execute", st, w, upd)
        advanced == [afterExecute EXCEPT
                        !.buf["eToF1"] = ChanAdvance(afterExecute.buf["eToF1"])]
        afterDecode == StageEvaluate("decode", advanced, w, upd)
        afterFetch2 == StageEvaluate("fetch2", afterDecode, w, upd)
        afterFetch1 == StageEvaluate("fetch1", afterFetch2, w, upd)
    IN  afterFetch1

\* faulty variant of StagesEvaluate: the stages in pipeline order
StagesEvaluateForward(st, w, upd) ==
    LET afterFetch1 == StageEvaluate("fetch1", st, w, upd)
        afterFetch2 == StageEvaluate("fetch2", afterFetch1, w, upd)
        afterDecode == StageEvaluate("decode", afterFetch2, w, upd)
        afterExecute == StageEvaluate("execute", afterDecode, w, upd)
    IN  afterExecute

\* faulty variant of StagesEvaluate: dToE is advanced right after decode,
\* its producer, has been evaluated
StagesEvaluateInterleaved(st, w, upd) ==
    LET afterExecute == StageEvaluate("execute", st, w, upd)
        afterDecode == StageEvaluate("decode", afterExecute, w, upd)
        advanced == ChannelEvaluate(afterDecode, "dToE")
        afterFetch2 == StageEvaluate("fetch2", advanced, w, upd)
        afterFetch1 == StageEvaluate("fetch1", afterFetch2, w, upd)
    IN  afterFetch1

\* pipeline.cc 339-342: the stages, in reverse pipeline order
StagesEvaluate(st, w, upd) ==
    LET afterExecute == StageEvaluate("execute", st, w, upd)
        afterDecode == StageEvaluate("decode", afterExecute, w, upd)
        afterFetch2 == StageEvaluate("fetch2", afterDecode, w, upd)
        afterFetch1 == StageEvaluate("fetch1", afterFetch2, w, upd)
    IN  afterFetch1

\* faulty variant of FaultsThenStages: the hooks run after the stages
StagesThenFaults(st, w, upd, at) ==
    VulnerableEvaluate(StagesEvaluate(st, w, upd), at)

\* pipeline.cc 316-342: fault injection into the pipeline registers before
\* the stages evaluate
FaultsThenStages(st, w, upd, at) ==
    StagesEvaluate(VulnerableEvaluate(st, at), w, upd)

\* faulty variant of BuffersEvaluate: f2ToD is advanced twice and dToE not at all
BuffersEvaluateSlip(st) ==
    LET b1 == ChannelEvaluate(st, "f1ToF2")
        b2 == ChannelEvaluate(b1, "f2ToF1")
        b3 == ChannelEvaluate(b2, "f2ToD")
        b4 == ChannelEvaluate(b3, "f2ToD")
        b5 == ChannelEvaluate(b4, "eToF1")
    IN  b5

\* pipeline.cc 348-352: update the time buffers after the stages
BuffersEvaluate(st) ==
    LET b1 == ChannelEvaluate(st, "f1ToF2")
        b2 == ChannelEvaluate(b1, "f2ToF1")
        b3 == ChannelEvaluate(b2, "f2ToD")
        b4 == ChannelEvaluate(b3, "dToE")
        b5 == ChannelEvaluate(b4, "eToF1")
    IN  b5

\* faulty variant of IdleDecision: the activity recorder is not consulted
IdleDecisionIgnoringActivity(idling, active, pending) ==
    idling /\ ~pending

\* faulty variant of IdleDecision: the pending drain is not looked at
IdleDecisionIgnoringDrain(idling, active, pending) ==
    idling /\ ~active

\* faulty variant of IdleDecision: the pipeline suspends only while draining
IdleDecisionOnlyWhileDraining(idling, active, pending) ==
    idling /\ ~active /\ pending

\* pipeline.cc 507-512: become idle if we can but are not draining
IdleDecision(idling, active, pending) ==
    idling /\ ~active /\ ~pending

\* faulty variant of DeactivateStages: Execute is left out
DeactivateStagesKeepingExecute(idling, sa) ==
    IF idling
    THEN DeactivateStage(DeactivateStage(DeactivateStage(
             DeactivateStage(sa, "CPU"), "Fetch1"), "Fetch2"), "Decode")
    ELSE sa

\* pipeline.cc 514-523: deactivate all stages (only when idling is allowed)
DeactivateStages(idling, sa) ==
    IF idling
    THEN DeactivateStage(DeactivateStage(DeactivateStage(DeactivateStage(
             DeactivateStage(sa, "CPU"), "Fetch1"), "Fetch2"), "Decode"),
             "Execute")
    ELSE sa

\* faulty variant of DrainCheck: signals whenever the drain test holds
DrainCheckUnguarded(pending, sd, b) ==
    IsDrained(sd, b)

\* pipeline.cc 525-534: signal the end of draining
DrainCheck(pending, sd, b) ==
    pending /\ IsDrained(sd, b)

(***************************************************************************)
(* Bubble statistics.                                                      *)
(***************************************************************************)
\* pipeline.cc 241-245: the outputs of the pipeline registers, copied when
\* evaluate() starts
Snapshot(b) == [c \in Chan |-> ChanOutput(b[c])]

\* the channels that carry BranchData
BranchChannels == {"eToF1", "f2ToF1"}

IsBubble(p) == p = Bubble

\* BranchData::isBranch
IsBranch(p) == p \notin {Bubble, NotBranch}

\* pipeline.cc 537-546: the conditions under which a register counts as
\* holding a bubble
CountsAsBubble(c, p) ==
    IF c \in BranchChannels THEN IsBubble(p) \/ ~IsBranch(p)
    ELSE IsBubble(p)

\* the tick event fires dt ticks of simulated time after the last evaluate()
TickEvent(clk, dt) ==
    [k \in DOMAIN clk |-> IF k = "curTick" THEN clk[k] + dt ELSE clk[k]]

\* a - b in unsigned 64-bit arithmetic: a negative difference wraps around
\* to 2^64 + (a - b)
TickDifference(a, b) ==
    [wraps |-> IF a - b < 0 THEN 1 ELSE 0, ticks |-> a - b]

\* curTick() - last_snapshot_time
SinceLastSnapshot(clk) ==
    IF DOMAIN clk = {} THEN NoTicks
    ELSE TickDifference(clk["curTick"], clk["last_snapshot_time"])

\* faulty variant of BubbleAccounting: the backward channels are not counted
BubbleAccountingForwardOnly(snap, bt, elapsed) ==
    [c \in DOMAIN bt |->
        IF c \notin BranchChannels /\ CountsAsBubble(c, snap[c])
        THEN Plus(bt[c], elapsed) ELSE bt[c]]

\* pipeline.cc 537-546: add the time since the last snapshot to the counter
\* of every register whose snapshot counts as a bubble
BubbleAccounting(snap, bt, elapsed) ==
    [c \in DOMAIN bt |->
        IF CountsAsBubble(c, snap[c]) THEN Plus(bt[c], elapsed) ELSE bt[c]]

\* pipeline.cc 549: last_snapshot_time = curTick()
SnapshotTaken(clk) == [k \in DOMAIN clk |-> clk["curTick"]]

\* the time that may pass before the next tick event, within MaxTick
Elapsed ==
    IF DOMAIN clock = {} THEN {0}
    ELSE { dt \in 1..MaxElapsed : clock["curTick"] + dt <= MaxTick }

(***************************************************************************)
(* Pipeline::evaluate, called by the tick event while the pipeline is      *)
(* running.                                                                *)
(***************************************************************************)
\* the state evaluate() starts from
TickStart ==
    [buf |-> buf, seen |-> seen, sd |-> stageDrained,
     calls |-> [h \in DOMAIN order |-> << >>]]

\* whether this tick is the one of params.injectTime: it comes once at most,
\* and matters only when a channel is registered
InjectNow == IF armed # {} /\ hit = "before" THEN BOOLEAN ELSE {FALSE}

\* w: what the stages write; upd: the stage whose isDrained() answer
\* changes; work: whether a stage reported activity to the recorder
Evaluate(w, upd) ==
    /\ ticking
    /\ \E at \in InjectNow :
       \E st \in {BuffersEvaluate(FaultsThenStages(TickStart, w, upd, at))} :
       \E work \in BOOLEAN :
       \E now \in { TickEvent(clock, dt) : dt \in Elapsed } :
       LET active == RecorderActive(stageActive, work)
           idle == IdleDecision(allow_idling, active, needToSignalDrained)
           signal == DrainCheck(needToSignalDrained, st.sd, st.buf)
       IN
        /\ buf' = st.buf
        /\ seen' = st.seen
        /\ sent' = [c \in DOMAIN sent |->
                      <<w[c]>> \o SubSeq(sent[c], 1, delay[c])]
        /\ snapshot' = [c \in DOMAIN snapshot |-> ChanOutput(buf[c])]
        /\ hit' = IF at THEN "now" ELSE IF hit = "now" THEN "after" ELSE hit
        /\ stageDrained' = st.sd
        /\ stageActive' = DeactivateStages(allow_idling, stageActive)
        /\ needToSignalDrained' = (needToSignalDrained /\ ~signal)
        /\ ticking' = (~idle /\ ~signal)
        /\ order' = [h \in DOMAIN order |->
                       st.calls[h]
                       \o << <<"activityRecorder.evaluate", -1>> >>
                       \o (IF idle THEN << <<"stop", -1>> >> ELSE << >>)
                       \o (IF signal
                           THEN << <<"cpu.signalDrainDone", -1>>,
                                   <<"stop", -1>> >>
                           ELSE << >>)]
        /\ bubble_ticks' = BubbleAccounting(Snapshot(buf), bubble_ticks,
                                            SinceLastSnapshot(now))
        /\ clock' = SnapshotTaken(now)
        /\ last' = Outcome("evaluate", FALSE, signal, idle, active, NoCall)
        /\ asked' = NoAnswers
        /\ UNCHANGED construction

(***************************************************************************)
(* Stage entry points the orchestrator forwards to.  A stage that is woken *)
(* activates itself in the activity recorder and restarts the tick event   *)
(* (cpu.wakeupOnEvent); r = [active, running] is the recorder's stage      *)
(* flags and Ticked::running.                                              *)
(***************************************************************************)
WakeupOnEvent(r, id) ==
    [active |-> ActivateStage(r.active, id), running |-> TRUE]

Fetch1WakeupFetch(r, tid) == WakeupOnEvent(r, "Fetch1")

\* Execute::drain: execute stops accepting new work; it does not stop the
\* tick event.  Whether it wakes an idle pipeline is not described: both
\* outcomes are followed
ExecuteDrain(r) == {r, WakeupOnEvent(r, "Execute")}

ExecuteDrainResume(r) == r

Recorder == [active |-> stageActive, running |-> ticking]

\* faulty variant of WakeupFetch: the first thread is woken, whatever tid
WakeupFetchFirstThread(tid) ==
    LET r == Fetch1WakeupFetch(Recorder, 0)
    IN  /\ stageActive' = r.active
        /\ ticking' = r.running
        /\ last' = [Outcome("wakeupFetch", FALSE, FALSE, FALSE, FALSE,
                            << <<"fetch1.wakeupFetch", 0>> >>)
                       EXCEPT !.arg = tid]
        /\ UNCHANGED <<construction, tickOnly, buf, stageDrained,
                       needToSignalDrained>>
        /\ UNCHANGED asked

\* Pipeline::wakeupFetch
WakeupFetch(tid) ==
    LET r == Fetch1WakeupFetch(Recorder, tid)
    IN  /\ stageActive' = r.active
        /\ ticking' = r.running
        /\ last' = [Outcome("wakeupFetch", FALSE, FALSE, FALSE, FALSE,
                            << <<"fetch1.wakeupFetch", tid>> >>)
                       EXCEPT !.arg = tid]
        /\ UNCHANGED <<construction, tickOnly, buf, stageDrained,
                       needToSignalDrained>>
        /\ UNCHANGED asked

\* faulty variant of Drain: the pending flag is set even when already drained
DrainAlwaysPending ==
    \E r \in ExecuteDrain(Recorder) :
        /\ stageActive' = r.active
        /\ ticking' = r.running
        /\ needToSignalDrained' = TRUE
        /\ last' = Outcome("drain", IsDrained(stageDrained, buf), FALSE, FALSE,
                           FALSE, << <<"execute.drain", -1>> >>)
        /\ UNCHANGED <<construction, tickOnly, buf, stageDrained>>
        /\ asked' = NoAnswers

\* faulty variant of Drain: a drain requested while one is pending is rejected
DrainRejectedWhilePending ==
    \E r \in ExecuteDrain(Recorder) :
    LET drained == IsDrained(stageDrained, buf)
    IN  IF needToSignalDrained
        THEN /\ last' = Outcome("drain", FALSE, FALSE, FALSE, FALSE, NoCall)
             /\ UNCHANGED <<construction, tickOnly, buf, stageDrained,
                            stageActive, ticking, needToSignalDrained>>
             /\ asked' = NoAnswers
        ELSE /\ stageActive' = r.active
             /\ ticking' = r.running
             /\ needToSignalDrained' = ~drained
             /\ last' = Outcome("drain", drained, FALSE, FALSE, FALSE,
                                << <<"execute.drain", -1>> >>)
             /\ UNCHANGED <<construction, tickOnly, buf,
                            stageDrained>>
             /\ asked' = NoAnswers

\* Pipeline::drain
Drain ==
    \E r \in ExecuteDrain(Recorder) :
    LET drained == IsDrained(stageDrained, buf)
    IN  /\ stageActive' = r.active
        /\ ticking' = r.running
        /\ needToSignalDrained' = ~drained
        /\ last' = Outcome("drain", drained, FALSE, FALSE, FALSE,
                           << <<"execute.drain", -1>> >>)
        /\ UNCHANGED <<construction, tickOnly, buf, stageDrained>>
        /\ asked' = NoAnswers

\* pipeline.cc 591-593: wake every thread of fetch1
RECURSIVE WakeAllThreads(_, _)
WakeAllThreads(r, n) ==
    IF n = 0 THEN r ELSE Fetch1WakeupFetch(WakeAllThreads(r, n - 1), n - 1)

\* the calls drainResume() makes when it wakes the threads 0..n-1
ResumeCalls(n) ==
    [i \in 1..n |-> <<"fetch1.wakeupFetch", i - 1>>]
    \o << <<"execute.drainResume", -1>> >>

\* faulty variant of DrainResume: only the first thread is woken
DrainResumeFirstThreadOnly ==
    LET r == ExecuteDrainResume(WakeAllThreads(Recorder, 1))
    IN  /\ stageActive' = r.active
        /\ ticking' = r.running
        /\ last' = Outcome("drainResume", FALSE, FALSE, FALSE, FALSE,
                           ResumeCalls(1))
        /\ UNCHANGED <<construction, tickOnly, buf, stageDrained,
                       needToSignalDrained>>
        /\ asked' = NoAnswers

\* faulty variant of DrainResume: resuming cancels a pending drain
DrainResumeCancelling ==
    LET r == ExecuteDrainResume(WakeAllThreads(Recorder, NumThreads))
    IN  /\ stageActive' = r.active
        /\ ticking' = r.running
        /\ needToSignalDrained' = FALSE
        /\ last' = Outcome("drainResume", FALSE, FALSE, FALSE, FALSE,
                           ResumeCalls(NumThreads))
        /\ UNCHANGED <<construction, tickOnly, buf, stageDrained>>
        /\ asked' = NoAnswers

\* Pipeline::drainResume
DrainResume ==
    LET r == ExecuteDrainResume(WakeAllThreads(Recorder, NumThreads))
    IN  /\ stageActive' = r.active
        /\ ticking' = r.running
        /\ last' = Outcome("drainResume", FALSE, FALSE, FALSE, FALSE,
                           ResumeCalls(NumThreads))
        /\ UNCHANGED <<construction, tickOnly, buf, stageDrained,
                       needToSignalDrained>>
        /\ asked' = NoAnswers

\* faulty variant of IsDrainedQuery: a query that finds a pending drain
\* complete discharges it, as the drain check of evaluate() does
IsDrainedQuerySignalling ==
    LET drained == IsDrained(stageDrained, buf)
        signal == needToSignalDrained /\ drained
    IN  /\ last' = Outcome("isDrained", drained, signal, FALSE, FALSE, NoCall)
        /\ needToSignalDrained' = (needToSignalDrained /\ ~signal)
        /\ ticking' = (ticking /\ ~signal)
        /\ UNCHANGED <<construction, tickOnly, buf, stageDrained, stageActive>>
        /\ asked' = [q \in DOMAIN asked |-> Answered(asked[q], drained)]

\* Pipeline::isDrained, called from outside
IsDrainedQuery ==
    /\ last' = Outcome("isDrained", IsDrained(stageDrained, buf), FALSE, FALSE,
                       FALSE, NoCall)
    /\ UNCHANGED <<construction, tickOnly, buf, stageDrained,
                   stageActive, ticking, needToSignalDrained>>
    /\ asked' = [q \in DOMAIN asked |->
                  Answered(asked[q], IsDrained(stageDrained, buf))]

(***************************************************************************)
(* A memory response arriving at one of the two stages that own a port     *)
(* (getInstPort: fetch1, getDataPort: execute): the stage may change what  *)
(* it answers to isDrained(), and it wakes the pipeline.                   *)
(***************************************************************************)
PortStages == {"fetch1", "execute"}

StageIdOf ==
    [s \in Stages |->
        CASE s = "fetch1" -> "Fetch1"
          [] s = "fetch2" -> "Fetch2"
          [] s = "decode" -> "Decode"
          [] s = "execute" -> "Execute"]

StageEvent(s, d) ==
    LET r == WakeupOnEvent(Recorder, StageIdOf[s])
    IN  /\ stageDrained' = [stageDrained EXCEPT ![s] = d]
        /\ stageActive' = r.active
        /\ ticking' = r.running
        /\ last' = Outcome("event", FALSE, FALSE, FALSE, FALSE, NoCall)
        /\ UNCHANGED <<construction, tickOnly, buf,
                       needToSignalDrained>>
        /\ asked' = ResponseArrived(asked)

Tick == \E w \in Writes, upd \in Stages \cup {"none"} : Evaluate(w, upd)

Wake == \E tid \in ThreadIds : WakeupFetch(tid)

MemoryResponse == \E s \in PortStages, d \in BOOLEAN : StageEvent(s, d)

Next ==
    \/ Tick
    \/ Wake
    \/ Drain
    \/ DrainResume
    \/ IsDrainedQuery
    \/ MemoryResponse

Spec == Init /\ [][Next]_vars

\* the tick event is rescheduled every cycle while the pipeline is running
LiveInit ==
    InitFor({[c \in Chan |-> 1]}, {TRUE}, {}, [Stages -> BOOLEAN])

\* the progress of a drain depends on whether the channels are empty, not
\* on how many are written at once: one payload per tick at most
LiveWrites ==
    { w \in [Chan -> Payload] :
        \A c, e \in Chan : (w[c] # Bubble /\ w[e] # Bubble) => c = e }

LiveTick == \E w \in LiveWrites, upd \in Stages \cup {"none"} : Evaluate(w, upd)

LiveNext ==
    \/ LiveTick
    \/ Wake
    \/ Drain
    \/ MemoryResponse

LiveSpec == LiveInit /\ [][LiveNext]_vars /\ WF_vars(LiveTick)

(***************************************************************************)
(* The channels under observation: every configured delay up to MaxDelay,  *)
(* what each stage reads and what each producer wrote recorded, the stages *)
(* never drained.                                                          *)
(***************************************************************************)
ChanInit ==
    Construct(DelayConfigs, BOOLEAN, {NoInject}, ReadPorts, {"evaluate"},
              {[s \in Stages |-> FALSE]})

ChanTick == \E w \in Writes : Evaluate(w, "none")

ChanNext ==
    \/ ChanTick
    \/ Wake

SpecChan == ChanInit /\ [][ChanNext]_vars

(***************************************************************************)
(* Fault injection: params.injectComp names any of the channels or none of *)
(* them; the reads, the writes and the calls of evaluate() are observed.   *)
(***************************************************************************)
InjectComps == Chan \cup {NoInject}

FiInit ==
    Construct({[c \in Chan |-> 1]}, BOOLEAN, InjectComps, ReadPorts,
              {"evaluate"}, {[s \in Stages |-> FALSE]})

SpecFi == FiInit /\ [][ChanNext]_vars

(***************************************************************************)
(* The answers of isDrained() under observation.                           *)
(***************************************************************************)
QueryInit ==
    Construct({[c \in Chan |-> 1]}, BOOLEAN, {NoInject}, {}, {"isDrained"},
              [Stages -> BOOLEAN])

\* what isDrained() answers depends on whether the channels are empty, not
\* on how many are written at once
QueryNext ==
    \/ LiveTick
    \/ Wake
    \/ Drain
    \/ DrainResume
    \/ IsDrainedQuery
    \/ MemoryResponse

SpecQuery == QueryInit /\ [][QueryNext]_vars

(***************************************************************************)
(* Construction under every delay from 0 up, one channel at a time away    *)
(* from 1: the constructor either ends in fatal() or yields a pipeline     *)
(* that the wake-ups and the tick event then drive, whatever the delay of  *)
(* the channel the constructor does not check.                             *)
(***************************************************************************)
AnyDelayConfigs ==
    { [c \in Chan |-> IF c = x THEN d ELSE 1] : x \in Chan, d \in 0..MaxDelay }

NewInit ==
    Construct(AnyDelayConfigs, BOOLEAN, {NoInject}, {}, {},
              {[s \in Stages |-> FALSE]})

\* fatal() has not ended the simulation
Exists == last.op # "fatal"

NewNext ==
    /\ Exists
    /\ \/ ChanTick
       \/ Wake

SpecNew == NewInit /\ [][NewNext]_vars

(***************************************************************************)
(* The bubble statistics under observation: the five counters and the      *)
(* simulated time, up to MaxTick; the backward channels may carry a        *)
(* BranchData that is not a branch.                                        *)
(***************************************************************************)
StatInit ==
    Construct({[c \in Chan |-> 1]}, BOOLEAN, {NoInject}, {}, {"regStats"},
              {[s \in Stages |-> FALSE]})

\* a counter depends on what its own channel carries, not on how many
\* channels are written at once: one payload per tick at most
StatWrites ==
    { w \in [Chan -> Payload \cup {NotBranch}] :
        /\ \A c, e \in Chan : (w[c] # Bubble /\ w[e] # Bubble) => c = e
        /\ \A c \in Chan : w[c] = NotBranch => c \in BranchChannels }

StatTick == \E w \in StatWrites : Evaluate(w, "none")

StatNext ==
    \/ StatTick
    \/ Wake
    \/ Drain

SpecStat == StatInit /\ [][StatNext]_vars

(***************************************************************************)
(* Vocabulary of the properties.                                           *)
(***************************************************************************)
AllStagesDrained == \A s \in Stages : stageDrained[s]

ForwardChannels == {"f1ToF2", "f2ToD", "dToE"}

TestedChannels == ForwardChannels \cup {"f2ToF1"}

ChannelsEmpty(cs) == \A c \in cs : \A i \in 1..Len(buf[c]) : buf[c][i] = Bubble

\* the stages that write channel c, and those that read it during a tick
Writers(c) == { s \in Stages : c \in OutputsOf[s] }

Readers(c) == { s \in Stages : <<s, c>> \in DOMAIN seen }

\* some slot of channel c holds a corrupted payload
HoldsFaulty(c) == \E i \in 1..Len(buf[c]) : buf[c][i] = Faulty

\* the call x.evaluate() in the trace of evaluate()
CallOf(x) == <<x \o ".evaluate", -1>>

\* the positions of call x in the trace o
Positions(o, x) == { i \in 1..Len(o) : o[i] = x }

RecorderCall == <<"activityRecorder.evaluate", -1>>

\* the channels whose delay the constructor checks
CheckedChannels == {"f1ToF2", "f2ToD", "dToE", "eToF1"}

\* the conjunction the drain test computes, written out on the state
Quiescent == AllStagesDrained /\ ChannelsEmpty(TestedChannels)

\* the last call answered the drain test to its caller
DrainTestAnswered == last.op \in {"isDrained", "drain"}

(***************************************************************************)
(* C1.  As claimed: the drain test is true iff the four stages report      *)
(* drained and the three forward channels f1ToF2, f2ToD, dToE are empty,   *)
(* whatever the backward channels f2ToF1 and eToF1 hold.                   *)
(***************************************************************************)
C1_ForwardChannelsOnly ==
    DrainTestAnswered =>
        (last.ret <=> (AllStagesDrained /\ ChannelsEmpty(ForwardChannels)))

(***************************************************************************)
(* C1, amended.  The drain test (isDrained(), and the value drain()        *)
(* returns) is true iff the four stages report drained and f1ToF2, f2ToF1, *)
(* f2ToD and dToE are all empty: the backward prediction channel f2ToF1 is *)
(* part of the test, only eToF1 never affects the result.                  *)
(***************************************************************************)
C1_DrainTest ==
    DrainTestAnswered =>
        (last.ret <=> (AllStagesDrained /\ ChannelsEmpty(TestedChannels)))

\* isDrained() answered false only because f2ToF1 still holds a prediction,
\* while eToF1 holds nothing
C1_Witness ==
    /\ last.op = "isDrained"
    /\ ~last.ret
    /\ AllStagesDrained
    /\ ChannelsEmpty(ForwardChannels \cup {"eToF1"})
    /\ ~ChannelsEmpty({"f2ToF1"})

(***************************************************************************)
(* C2.  As claimed: every drain() that returned false is answered by the   *)
(* completion signal, so a pending drain is discharged only by the         *)
(* evaluate() that signals.                                                *)
(***************************************************************************)
C2_EveryPendingDrainSignals ==
    [][(needToSignalDrained /\ ~needToSignalDrained') => last'.signalled]_vars

(***************************************************************************)
(* C2, amended.  The completion signal fires only at the end of an         *)
(* evaluate() that started with a drain pending and ends with the drain    *)
(* test holding; every such evaluate() signals, clears the pending flag    *)
(* and stops ticking in the same step.  The flag is raised only by a       *)
(* drain() returning false, and cleared only by the signalling evaluate()  *)
(* or by a later drain() that finds the pipeline drained and returns true  *)
(* (which then discharges the pending drain without any signal).           *)
(***************************************************************************)
C2_SignalOnce ==
    [][ /\ (last'.op = "evaluate" /\ last'.signalled) =>
               /\ needToSignalDrained
               /\ Quiescent'
               /\ ~needToSignalDrained'
               /\ ~ticking'
        /\ (last'.op = "evaluate" /\ needToSignalDrained /\ Quiescent') =>
               last'.signalled
        /\ (last'.op # "evaluate") => ~last'.signalled
        /\ (needToSignalDrained /\ ~needToSignalDrained') =>
               (last'.signalled \/ (last'.op = "drain" /\ last'.ret))
        /\ (~needToSignalDrained /\ needToSignalDrained') =>
               (last'.op = "drain" /\ ~last'.ret)
      ]_vars

\* an evaluate() has just signalled the end of a drain
C2_Witness ==
    /\ last.op = "evaluate"
    /\ last.signalled
    /\ ~needToSignalDrained
    /\ ~ticking

(***************************************************************************)
(* C3.  drain() returns the drain test as it stands at the call and leaves *)
(* the pending flag set exactly when it returns false; an evaluate() that  *)
(* runs with no drain pending (as after a drain() that returned true)      *)
(* does not signal completion.                                             *)
(***************************************************************************)
C3_PreDrained ==
    [][ /\ (last'.op = "drain") =>
               /\ last'.ret <=> Quiescent'
               /\ needToSignalDrained' <=> ~last'.ret
        /\ (last'.op = "evaluate" /\ ~needToSignalDrained) =>
               (~last'.signalled /\ ~needToSignalDrained')
      ]_vars

\* drain() on a quiescent pipeline has returned true and left no drain pending
C3_Witness ==
    /\ last.op = "drain"
    /\ last.ret
    /\ Quiescent
    /\ ~needToSignalDrained

(***************************************************************************)
(* C4.  While a drain is pending no evaluate() suspends ticking for        *)
(* inactivity: an evaluate() that starts with a drain pending either keeps *)
(* the pipeline ticking or stops it together with the completion signal.   *)
(***************************************************************************)
C4_NoIdleWhileDraining ==
    [][(last'.op = "evaluate" /\ needToSignalDrained) =>
           /\ ~last'.idled
           /\ ticking' \/ last'.signalled
      ]_vars

\* an evaluate() with idling enabled and an inactive recorder has run while
\* the drain was pending, and the pipeline still ticks
C4_Witness ==
    /\ last.op = "evaluate"
    /\ allow_idling
    /\ ~last.active
    /\ needToSignalDrained
    /\ ticking

C6_SecondDrainRejected ==
    (last.op = "drain" /\ last.pending) =>
        (last.calls = NoCall /\ needToSignalDrained)

(***************************************************************************)
(* C6, amended.  A drain() made while a drain is pending is not rejected:  *)
(* it runs like any other drain(), forwarding the drain request to execute *)
(* again, returning the drain test as it stands and leaving the pending    *)
(* flag set exactly when it returns false.                                 *)
(***************************************************************************)
C6_SecondDrainReruns ==
    (last.op = "drain" /\ last.pending) =>
        /\ last.calls = << <<"execute.drain", -1>> >>
        /\ last.ret <=> Quiescent
        /\ needToSignalDrained <=> ~last.ret

\* a drain() made while a drain was pending found the pipeline drained,
\* returned true and cleared the pending flag
C6_Witness ==
    /\ last.op = "drain"
    /\ last.pending
    /\ last.ret
    /\ ~needToSignalDrained

(***************************************************************************)
(* C7.  An evaluate() suspends ticking for inactivity iff idling is        *)
(* enabled, the activity recorder reports not active and no drain is       *)
(* pending; the pipeline stops ticking in an evaluate() only for that or   *)
(* together with the completion signal, so with idling disabled only with  *)
(* the completion signal.                                                  *)
(***************************************************************************)
C7_IdlePolicy ==
    [][(last'.op = "evaluate") =>
           /\ last'.idled <=>
                  (allow_idling /\ ~last'.active /\ ~needToSignalDrained)
           /\ (\E s \in StageId : stageActive[s]) => last'.active
           /\ ~ticking' <=> (last'.idled \/ last'.signalled)
           /\ (~allow_idling /\ ~ticking') => last'.signalled
      ]_vars

\* an evaluate() has suspended ticking for inactivity
C7_Witness ==
    /\ last.op = "evaluate"
    /\ last.idled
    /\ allow_idling
    /\ ~last.active
    /\ ~last.pending
    /\ ~ticking

(***************************************************************************)
(* C8.  evaluate() runs only while the pipeline is ticking, so none runs   *)
(* once it has gone idle until something wakes it.  wakeupFetch(tid)       *)
(* makes one call, fetch1.wakeupFetch with the thread id it was given,     *)
(* which activates Fetch1 and restarts ticking, and changes no drain       *)
(* state; the next evaluate() finds the recorder active and does not go    *)
(* idle.                                                                   *)
(***************************************************************************)
C8_IdleWake ==
    [][ /\ (last'.op = "evaluate") => ticking
        /\ (last'.op = "wakeupFetch") =>
               /\ last'.arg \in ThreadIds
               /\ last'.calls = << <<"fetch1.wakeupFetch", last'.arg>> >>
               /\ ticking'
               /\ stageActive'["Fetch1"]
               /\ UNCHANGED <<needToSignalDrained, stageDrained, buf>>
        /\ (last'.op = "evaluate" /\ stageActive["Fetch1"]) =>
               (last'.active /\ ~last'.idled)
      ]_vars

\* an idle pipeline has been woken by wakeupFetch for the second thread and
\* ticks again
C8_Witness ==
    /\ last.op = "wakeupFetch"
    /\ last.arg = 1
    /\ last.calls = << <<"fetch1.wakeupFetch", 1>> >>
    /\ ~last.running
    /\ allow_idling
    /\ ticking
    /\ stageActive["Fetch1"]

(***************************************************************************)
(* C9.  As claimed: a branch that execute writes to eToF1 during a tick is *)
(* read by fetch1 in that same tick.                                       *)
(***************************************************************************)
C9_SameTickRedirect ==
    (last.op = "evaluate" /\ sent["eToF1"][1] = Data) =>
        seen[<<"fetch1", "eToF1">>] = Data

(***************************************************************************)
(* C9, amended.  In every tick the stage that writes a backward channel    *)
(* (execute for eToF1, fetch2 for f2ToF1) is evaluated before the stages   *)
(* that read it, and all of them before any channel advance.  What fetch1  *)
(* (and fetch2) read from eToF1 during a tick is nevertheless what execute *)
(* wrote executeBranchDelay ticks earlier: a branch redirect written on    *)
(* tick t is visible to fetch1 on tick t + executeBranchDelay, which is at *)
(* least t + 1, not on tick t.                                             *)
(***************************************************************************)
C9_RedirectAfterDelay ==
    /\ (last.op = "evaluate") =>
           \A c \in BranchChannels : \A w \in Writers(c) : \A r \in Readers(c) :
               /\ Positions(order["evaluate"], CallOf(w)) # {}
               /\ Positions(order["evaluate"], CallOf(r)) # {}
               /\ \A i \in Positions(order["evaluate"], CallOf(w)) :
                  \A j \in Positions(order["evaluate"], CallOf(r)) :
                      /\ i < j
                      /\ \A e \in Chan :
                             /\ Positions(order["evaluate"], CallOf(e)) # {}
                             /\ \A k \in Positions(order["evaluate"], CallOf(e)) :
                                    j < k
    /\ seen[<<"fetch1", "eToF1">>] = sent["eToF1"][delay["eToF1"] + 1]
    /\ seen[<<"fetch2", "eToF1">>] = sent["eToF1"][delay["eToF1"] + 1]
    /\ delay["eToF1"] >= 1

\* execute wrote a branch in the tick just evaluated, and fetch1, evaluated
\* after it, read a bubble
C9_Witness ==
    /\ last.op = "evaluate"
    /\ sent["eToF1"][1] = Data
    /\ seen[<<"fetch1", "eToF1">>] = Bubble
    /\ \E i \in Positions(order["evaluate"], CallOf("execute")) :
       \E j \in Positions(order["evaluate"], CallOf("fetch1")) : i < j

(***************************************************************************)
(* C10.  For every channel of delay d >= 1, what the consumer reads during *)
(* a tick is what the producer wrote exactly d ticks earlier, bubbles      *)
(* included; between ticks the slot i advances away from delivery holds    *)
(* the write of d - i ticks ago.  The write of the current tick is never   *)
(* what the consumer read in it.                                           *)
(***************************************************************************)
C10_ChannelDelay ==
    /\ \A p \in DOMAIN seen : seen[p] = sent[p[2]][delay[p[2]] + 1]
    /\ \A c \in DOMAIN sent :
           /\ delay[c] >= 1
           /\ Len(buf[c]) = delay[c] + 1
           /\ \A i \in 1..delay[c] : buf[c][i] = sent[c][delay[c] - i + 1]
           /\ buf[c][delay[c] + 1] = Bubble

\* a channel of delay 2: the payload written two ticks ago, followed by two
\* bubbles, is what the consumer has just read
C10_Witness ==
    /\ last.op = "evaluate"
    /\ \E p \in DOMAIN seen :
           /\ delay[p[2]] = 2
           /\ sent[p[2]] = <<Bubble, Bubble, Data>>
           /\ seen[p] = Data

(***************************************************************************)
(* C11.  As claimed: a delay below 1 on any of the five channels ends      *)
(* construction in fatal(), so no pipeline that is ticked has any of the   *)
(* five delays below 1.                                                    *)
(***************************************************************************)
C11_AllFiveChecked ==
    (ticking \/ last.op = "evaluate") => \A c \in Chan : delay[c] >= 1

(***************************************************************************)
(* C11, amended.  Construction ends in fatal(), before any tick, exactly   *)
(* when the delay of f1ToF2, f2ToD, dToE or eToF1 is below 1; no pipeline  *)
(* that ticks has one of these four delays below 1.  The delay of the      *)
(* backward prediction channel f2ToF1 is not checked: a delay below 1      *)
(* there does not end construction.                                        *)
(***************************************************************************)
C11_CheckedDelays ==
    /\ (last.op = "fatal") <=> (\E c \in CheckedChannels : delay[c] < 1)
    /\ (last.op = "fatal") => (~ticking /\ armed = {})
    /\ (ticking \/ last.op = "evaluate") =>
           \A c \in CheckedChannels : delay[c] >= 1

\* a pipeline was built with fetch1ToFetch2BackwardDelay = 0: construction
\* did not end in fatal(), and the pipeline has been evaluated and still ticks
C11_Witness ==
    /\ delay["f2ToF1"] = 0
    /\ last.op = "evaluate"
    /\ ticking

(***************************************************************************)
(* C12.  As claimed: every channel is exposed to exactly two stages, one   *)
(* that writes it and one that reads it during a tick.                     *)
(***************************************************************************)
C12_ExactlyTwoStages ==
    (last.op = "evaluate") =>
        \A c \in Chan :
            /\ Cardinality(Writers(c)) = 1
            /\ Cardinality(Readers(c)) = 1

(***************************************************************************)
(* C12, amended.  Every channel has exactly one producer, which is none of *)
(* its consumers.  f1ToF2, f2ToF1, f2ToD and dToE have exactly one         *)
(* consumer; the output end of eToF1 is handed to two stages, fetch2 and   *)
(* fetch1, so eToF1 is exposed to three stages, and in every tick both     *)
(* consumers read the same branch from it.                                 *)
(***************************************************************************)
C12_ChannelSharing ==
    /\ \A c \in Chan :
           /\ Cardinality(Writers(c)) = 1
           /\ Writers(c) \cap Readers(c) = {}
           /\ Cardinality(Readers(c)) = IF c = "eToF1" THEN 2 ELSE 1
    /\ Writers("eToF1") = {"execute"}
    /\ Readers("eToF1") = {"fetch1", "fetch2"}
    /\ \A c \in Chan : \A s, t \in Readers(c) : seen[<<s, c>>] = seen[<<t, c>>]

\* fetch2 and fetch1 have both read the same branch from eToF1
C12_Witness ==
    /\ last.op = "evaluate"
    /\ seen[<<"fetch2", "eToF1">>] = Data
    /\ seen[<<"fetch1", "eToF1">>] = Data

(***************************************************************************)
(* C13.  As claimed: drainResume() does not restart ticking; a pipeline    *)
(* that was idle when it was called is still idle when it returns.         *)
(***************************************************************************)
C13_ResumeLeavesIdle ==
    (last.op = "drainResume") => (ticking = last.running)

(***************************************************************************)
(* C13, amended.  drainResume() calls fetch1.wakeupFetch for every thread  *)
(* id 0..numThreads-1, in order, and then execute.drainResume(); it runs   *)
(* no evaluate() and changes neither the channels, what the stages answer  *)
(* to isDrained(), nor the pending-drain flag.  It has no start() of its   *)
(* own, but the wake-ups it issues activate Fetch1 and restart ticking:    *)
(* the pipeline is ticking when drainResume() returns.                     *)
(***************************************************************************)
C13_ResumeWakes ==
    [][(last'.op = "drainResume") =>
           /\ Len(last'.calls) = NumThreads + 1
           /\ \A tid \in ThreadIds :
                  last'.calls[tid + 1] = <<"fetch1.wakeupFetch", tid>>
           /\ last'.calls[NumThreads + 1] = <<"execute.drainResume", -1>>
           /\ UNCHANGED <<buf, stageDrained, needToSignalDrained, tickOnly>>
           /\ ~last'.signalled /\ ~last'.idled
           /\ stageActive'["Fetch1"]
           /\ ticking'
      ]_vars

\* drainResume() was called on an idle pipeline: it woke the two threads in
\* turn, and the pipeline ticks again
C13_Witness ==
    /\ last.op = "drainResume"
    /\ ~last.running
    /\ SubSeq(last.calls, 1, 2) =
           << <<"fetch1.wakeupFetch", 0>>, <<"fetch1.wakeupFetch", 1>> >>
    /\ ticking
    /\ stageActive["Fetch1"]

(***************************************************************************)
(* C14.  As claimed: all the answers isDrained() gives with no evaluate(), *)
(* drain() or drainResume() in between are the same.                       *)
(***************************************************************************)
C14_SameBetweenCalls ==
    \A i, j \in 1..Len(asked[SinceCall]) :
        asked[SinceCall][i] = asked[SinceCall][j]

(***************************************************************************)
(* C14, amended.  isDrained() is a pure query: a call changes nothing but  *)
(* the record of the call, neither the pending-drain flag, Ticked::running,*)
(* the activity flags, the channels nor what the stages answer; and all    *)
(* the answers it gives with no evaluate(), drain() or drainResume(), and  *)
(* no memory response arriving at a stage, in between are the same,        *)
(* wakeupFetch() calls notwithstanding.                                    *)
(***************************************************************************)
C14_PureQuery ==
    /\ [](\A i, j \in 1..Len(asked[SinceResponse]) :
              asked[SinceResponse][i] = asked[SinceResponse][j])
    /\ [][(last'.op = "isDrained") =>
              /\ UNCHANGED <<construction, tickOnly, buf, stageDrained,
                             stageActive, ticking, needToSignalDrained>>
              /\ ~last'.signalled
              /\ last'.calls = NoCall
              /\ last'.ret = asked'[SinceCall][1]
              /\ last'.ret = asked'[SinceResponse][1]
         ]_vars

\* isDrained() has answered true twice in a row while the drain is still
\* pending and the pipeline ticks
C14_Witness ==
    /\ last.op = "isDrained"
    /\ asked[SinceResponse] = <<TRUE, TRUE>>
    /\ needToSignalDrained
    /\ ticking

(***************************************************************************)
(* C15.  At most one channel is registered for fault injection: the one    *)
(* params.injectComp names among f1ToF2, f2ToD, dToE, eToF1, f2ToF1, none  *)
(* when it names no channel.  Only that channel ever delivers a corrupted  *)
(* payload.                                                                *)
(***************************************************************************)
C15_OneChannelArmed ==
    /\ Cardinality(armed) <= 1
    /\ armed = IF injectComp \in {"f1ToF2", "f2ToD", "dToE", "eToF1", "f2ToF1"}
               THEN {injectComp} ELSE {}
    /\ \A c \in Chan : HoldsFaulty(c) => c \in armed
    /\ \A p \in DOMAIN seen : (seen[p] = Faulty) => p[2] \in armed

\* injectComp names dToE: dToE alone is registered, and execute has read a
\* corrupted payload from it
C15_Witness ==
    /\ injectComp = "dToE"
    /\ armed = {"dToE"}
    /\ last.op = "evaluate"
    /\ seen[<<"execute", "dToE">>] = Faulty

(***************************************************************************)
(* C19.  In the evaluate() of the injection tick, Vulnerable::evaluate is  *)
(* the first call, before the four stage evaluations.  The start-of-tick   *)
(* snapshot holds the payload as the producer wrote it, and every consumer *)
(* of the registered channel reads that payload corrupted in this same     *)
(* tick.  In every other evaluate() the stages read what the snapshot      *)
(* holds.                                                                  *)
(***************************************************************************)
C19_InjectBeforeStages ==
    (last.op = "evaluate") =>
        /\ order["evaluate"][1] = <<"Vulnerable.evaluate", -1>>
        /\ \A s \in Stages : \E i \in 2..Len(order["evaluate"]) :
               order["evaluate"][i] = CallOf(s)
        /\ \A c \in Chan : snapshot[c] = sent[c][delay[c] + 1]
        /\ \A c \in Chan : \A s \in Readers(c) :
               seen[<<s, c>>] =
                   IF hit = "now" /\ c \in armed /\ snapshot[c] # Bubble
                   THEN Faulty ELSE snapshot[c]

\* the injection tick has been evaluated: the snapshot of f2ToD holds the
\* instructions as fetch2 wrote them, decode has read them corrupted
C19_Witness ==
    /\ last.op = "evaluate"
    /\ hit = "now"
    /\ armed = {"f2ToD"}
    /\ snapshot["f2ToD"] = Data
    /\ seen[<<"decode", "f2ToD">>] = Faulty

(***************************************************************************)
(* C17.  Every evaluate() evaluates each of the four stages exactly once,  *)
(* in the order execute, decode, fetch2, fetch1.                           *)
(***************************************************************************)
C17_ReverseOrder ==
    (last.op = "evaluate") =>
        /\ \A s \in Stages :
               Cardinality(Positions(order["evaluate"], CallOf(s))) = 1
        /\ \E i \in 1..(Len(order["evaluate"]) - 3) :
               SubSeq(order["evaluate"], i, i + 3) =
                   <<CallOf("execute"), CallOf("decode"), CallOf("fetch2"),
                     CallOf("fetch1")>>

\* the four stages have been evaluated in reverse order in a tick in which
\* fetch2 wrote a prediction
C17_Witness ==
    /\ last.op = "evaluate"
    /\ SubSeq(order["evaluate"], 2, 5) =
           <<CallOf("execute"), CallOf("decode"), CallOf("fetch2"),
             CallOf("fetch1")>>
    /\ sent["f2ToF1"][1] = Data

(***************************************************************************)
(* C18.  Every evaluate() advances each of the five channels exactly once, *)
(* after all four stage evaluations; the activity recorder is evaluated    *)
(* once, after the stages and the channel advances, and before the stop()  *)
(* of the idle decision.  Accordingly every stage read what the channel    *)
(* held at the start of the tick, and after the tick the newest write sits *)
(* one advance away from the slot it was written to.                       *)
(***************************************************************************)
C18_AdvanceAfterStages ==
    (last.op = "evaluate") =>
        /\ \A c \in Chan :
               /\ Cardinality(Positions(order["evaluate"], CallOf(c))) = 1
               /\ \A i \in Positions(order["evaluate"], CallOf(c)) :
                      /\ \A s \in Stages :
                             \A j \in Positions(order["evaluate"], CallOf(s)) :
                                 j < i
                      /\ \A r \in Positions(order["evaluate"], RecorderCall) :
                             i < r
        /\ Cardinality(Positions(order["evaluate"], RecorderCall)) = 1
        /\ \A r \in Positions(order["evaluate"], RecorderCall) :
               \A j \in Positions(order["evaluate"], <<"stop", -1>>) : r < j
        /\ last.idled <=> (order["evaluate"][Len(order["evaluate"])] =
                               <<"stop", -1>> /\ ~last.signalled)
        /\ \A p \in DOMAIN seen : seen[p] = snapshot[p[2]]
        /\ \A c \in DOMAIN sent :
               /\ buf[c][delay[c]] = sent[c][1]
               /\ buf[c][delay[c] + 1] = Bubble

\* an evaluate() has run the stages, then the five channels, then the
\* recorder, and has then gone idle
C18_Witness ==
    /\ last.op = "evaluate"
    /\ last.idled
    /\ SubSeq(order["evaluate"], 6, 12) =
           <<CallOf("f1ToF2"), CallOf("f2ToF1"), CallOf("f2ToD"), CallOf("dToE"),
             CallOf("eToF1"), RecorderCall, <<"stop", -1>> >>

(***************************************************************************)
(* C20.  Whenever the pipeline is not ticking and idling is enabled, all   *)
(* five activity flags are clear.  Every evaluate() with idling enabled    *)
(* leaves CPU, Fetch1, Fetch2, Decode and Execute deactivated, whether or  *)
(* not it suspended ticking, the idle decision having looked at the flags  *)
(* before; an evaluate() with idling disabled changes no flag.             *)
(***************************************************************************)
C20_FlagsCleared ==
    /\ []((allow_idling /\ ~ticking) => \A s \in StageId : ~stageActive[s])
    /\ [][(last'.op = "evaluate") =>
              /\ allow_idling => \A s \in StageId : ~stageActive'[s]
              /\ ~allow_idling => stageActive' = stageActive
              /\ (\E s \in StageId : stageActive[s]) => ~last'.idled
         ]_vars

\* an evaluate() with idling enabled found the recorder active, kept the
\* pipeline ticking and left every flag deactivated
C20_Witness ==
    /\ last.op = "evaluate"
    /\ allow_idling
    /\ last.active
    /\ ~last.idled
    /\ ticking
    /\ \A s \in StageId : ~stageActive[s]

(***************************************************************************)
(* C22.  No evaluate() stops the tick event twice.  The inactivity stop    *)
(* is taken only when no drain is pending and the drain-completion stop    *)
(* only when one is, and both tests read the pending flag as evaluate()    *)
(* found it; so no evaluate() both idles and signals the end of a drain.   *)
(***************************************************************************)
C22_StopAtMostOnce ==
    last.op = "evaluate" =>
        /\ ~(last.idled /\ last.signalled)
        /\ last.idled => ~last.pending
        /\ last.signalled => last.pending
        /\ ticking = (~last.idled /\ ~last.signalled)

\* an evaluate() with idling enabled found the recorder inactive and a
\* pending drain complete: it signalled, and did not idle as well
C22_Witness ==
    /\ last.op = "evaluate"
    /\ allow_idling
    /\ ~last.active
    /\ last.pending
    /\ last.signalled
    /\ ~last.idled
    /\ ~ticking

(***************************************************************************)
(* C23.  needToSignalDrained is false after construction.  drain() sets    *)
(* it to the negation of the drain test it returns, the evaluate() that    *)
(* signals the end of a drain clears it, and no other call changes it:     *)
(* drainResume() and wakeupFetch() leave it as it is.  A drain left        *)
(* pending by drainResume() is therefore still signalled by the next       *)
(* evaluate() in which the drain test holds.                               *)
(***************************************************************************)
C23_PendingFlagWriters ==
    /\ [](last.op = "new" => ~needToSignalDrained)
    /\ [][/\ needToSignalDrained' # needToSignalDrained =>
                \/ last'.op = "drain"
                \/ last'.op = "evaluate" /\ last'.signalled
          /\ last'.op = "drain" => needToSignalDrained' = ~last'.ret
          /\ (last'.op = "evaluate" /\ last'.signalled) => ~needToSignalDrained'
          /\ last'.op \in {"drainResume", "wakeupFetch"} =>
                needToSignalDrained' = needToSignalDrained
          /\ (last'.op = "evaluate" /\ needToSignalDrained
                  /\ IsDrained(stageDrained', buf')) =>
                last'.signalled /\ ~needToSignalDrained'
         ]_vars

\* drainResume() found a drain pending and left it pending; the pipeline is
\* ticking and the drain test holds, so the next evaluate() signals
C23_Witness ==
    /\ last.op = "drainResume"
    /\ last.pending
    /\ needToSignalDrained
    /\ ticking
    /\ IsDrained(stageDrained, buf)

(***************************************************************************)
(* C21.  Bubble accounting as the claim states it: an evaluate() adds the  *)
(* time since the previous evaluate() (the current time minus the          *)
(* timestamp, in the arithmetic of the code) to the counter of exactly the *)
(* forward data channels (f1ToF2, f2ToD, dToE) whose output was a bubble   *)
(* when it started, and changes no other counter.  The code keeps a        *)
(* counter for the two backward channels as well.                          *)
(***************************************************************************)
C21_ForwardCountersOnly ==
    [][last'.op = "evaluate" =>
          LET d == clock'["curTick"] - clock["last_snapshot_time"]
              counts(c) == c \in ForwardChannels /\ ChanOutput(buf[c]) = Bubble
          IN  \A c \in DOMAIN bubble_ticks :
                  /\ bubble_ticks'[c].ticks =
                         bubble_ticks[c].ticks + (IF counts(c) THEN d ELSE 0)
                  /\ bubble_ticks'[c].wraps =
                         bubble_ticks[c].wraps +
                             (IF counts(c) /\ d < 0 THEN 1 ELSE 0)
      ]_vars

(***************************************************************************)
(* C21, amended.  Every evaluate() adds the current time minus the         *)
(* previous-evaluation timestamp (curTick() - last_snapshot_time, in the   *)
(* arithmetic of the code) to the counter of each of the five channels     *)
(* whose output counted as a bubble when the evaluate() started: a bubble  *)
(* on a forward data channel, a bubble or a BranchData that is not a       *)
(* branch on eToF1 and f2ToF1.  It changes no other counter and then sets  *)
(* the timestamp to the current time; no other call changes a counter or   *)
(* the timestamp.  The accounting leaves the rest of evaluate() as it is:  *)
(* each channel holds what one write at most and one advance leave in it,  *)
(* the pending flag changes only by the drain check and ticking only by    *)
(* the two stops.                                                          *)
(***************************************************************************)
C21_BubbleAccounting ==
    /\ [](last.op = "evaluate" =>
              clock["last_snapshot_time"] = clock["curTick"])
    /\ [][/\ last'.op = "evaluate" =>
              LET d == clock'["curTick"] - clock["last_snapshot_time"]
                  counts(c) ==
                      IF c \in ForwardChannels
                      THEN ChanOutput(buf[c]) = Bubble
                      ELSE ChanOutput(buf[c]) \in {Bubble, NotBranch}
              IN  /\ clock'["curTick"] > clock["curTick"]
                  /\ \A c \in DOMAIN bubble_ticks :
                        /\ bubble_ticks'[c].ticks =
                               bubble_ticks[c].ticks +
                                   (IF counts(c) THEN d ELSE 0)
                        /\ bubble_ticks'[c].wraps =
                               bubble_ticks[c].wraps +
                                   (IF counts(c) /\ d < 0 THEN 1 ELSE 0)
                  /\ clock'["last_snapshot_time"] = clock'["curTick"]
                  /\ \A c \in Chan :
                        \E p \in Payload \cup {NotBranch} :
                            buf'[c] = ChanAdvance(ChanWrite(buf[c], p))
                  /\ needToSignalDrained' =
                         (needToSignalDrained /\ ~last'.signalled)
                  /\ ticking' = (~last'.idled /\ ~last'.signalled)
          /\ last'.op # "evaluate" => UNCHANGED <<bubble_ticks, clock>>
         ]_vars

\* two evaluate() in a row, the second at MaxTick: the counter of the
\* backward channel eToF1 was increased by the time between them while a
\* drain was pending; eToF1 now holds a BranchData that is not a branch
C21_Witness ==
    /\ last.op = "evaluate"
    /\ clock["curTick"] = MaxTick
    /\ clock["last_snapshot_time"] = MaxTick
    /\ DOMAIN bubble_ticks = {"eToF1"}
    /\ bubble_ticks["eToF1"].wraps = 0
    /\ bubble_ticks["eToF1"].ticks >= MaxElapsed
    /\ ChanOutput(buf["eToF1"]) = NotBranch
    /\ needToSignalDrained
    /\ ticking

====
